---- MODULE Spec2Model ----
(***************************************************************************)
(* A model of ytb1.py: the format reduction of YouTubeDownloader, the      *)
(* quality menu and selection token of TelegramBot.handle_message and      *)
(* TelegramBot.button_callback, and the download / delivery / cleanup flow *)
(* of one selection event.                                                 *)
(*                                                                         *)
(* Strings are sequences of characters; a character is a one-element TLA+  *)
(* string, and a few longer strings ("youtu.be", "Song", ...) stand for    *)
(* runs of characters that hold neither "_" nor "." nor "/" nor a space.   *)
(***************************************************************************)
EXTENDS Integers, Sequences, FiniteSets, TLC

VARIABLES
    rformats,   \* resolver run: info['formats'] handed to get_available_formats
    rsorted,    \* resolver run: the dict get_available_formats returned
    rmenu,      \* resolver run: the buttons handle_message built from it
    rpc         \* resolver run: "extracted" -> "reduced" -> "menu"

rvars == <<rformats, rsorted, rmenu, rpc>>

VARIABLES
    tres,       \* token run: the height of the pressed entry (Unknown for 'unknown')
    turl,       \* token run: the URL the menu was built for
    tdata,      \* token run: query.data, the callback_data of the pressed button
    tquality,   \* token run: quality as button_callback decodes it
    tdecoded,   \* token run: url as button_callback decodes it
    tstart,     \* token run: what button_callback starts with them
    tpc         \* token run: "menu" -> "pressed" -> "decoded"

tvars == <<tres, turl, tdata, tquality, tdecoded, tstart, tpc>>

VARIABLES
    pc,         \* the bot: where the running handler is suspended, "idle" when none runs
    handler,    \* the bot: the handler of the current event
    text,       \* handle_message: update.message.text
    url,        \* the local url of the running handler
    info,       \* handle_message: what get_video_info returned
    menu,       \* the buttons of the menu message the user can press
    data,       \* button_callback: query.data
    quality,    \* button_callback: quality
    filename,   \* button_callback: what the fetch returned
    title,      \* the title the collaborator extracted for the download
    reported,   \* ydl.prepare_filename(info) of the download
    files,      \* the paths that exist on disk
    log,        \* the calls the handler of the current event has made, in order
    exc,        \* str(e) of the exception being handled
    escaped,    \* whether an exception left the handler of the current event
    raised,     \* whether the collaborator raised during the download
    tasks,      \* the message edits progress_hook has scheduled with create_task
    status,     \* the text of the status message of the download
    querytext,  \* the text of the message that carried the pressed menu
    inbox,      \* the updates that wait for the event loop to hand them to a handler
    hooks,      \* the in-progress callbacks the collaborator made during the download
    applied     \* the edits of the status message the event loop has run, in order

lvars == <<inbox, hooks, applied>>

bvars == <<pc, handler, text, url, info, menu, data, quality, filename, title,
           reported, files, log, exc, escaped, raised, tasks, status, querytext, lvars>>

vars == <<rvars, tvars, bvars>>

---------------------------------------------------------------------------
(* Bounds of the model *)

MaxFormats == 4

MaxUrlLen == 3

MaxProgress == 1

MaxInbox == 1

---------------------------------------------------------------------------
(* Values of the extraction collaborator's metadata *)

\* f.get('height', 'unknown') when the format has no integer height
Unknown == -1

\* f.get('filesize') when the format has no file size (None, or the key absent)
NoSize == -2

Fmt(id, h, vc, fs) == [format_id |-> id, height |-> h, vcodec |-> vc, filesize |-> fs]

\* formats with a video codec: several sizes of one height, a missing size, two
\* formats of equal height and size, a format without a height
VideoFormats ==
    { Fmt("137", 1080, "avc1", 80000000), Fmt("399", 1080, "av01", 80000000),
      Fmt("248", 1080, "vp9", 50000000),  Fmt("616", 1080, "vp9", NoSize),
      Fmt("136", 720, "avc1", 30000000),  Fmt("247", 720, "vp9", NoSize),
      Fmt("134", 360, "avc1", 30000000),
      Fmt("sb0", Unknown, "avc1", NoSize), Fmt("18", Unknown, "avc1", 30000000) }

\* audio-only formats: vcodec 'none', no height
AudioFormats == { Fmt("140", Unknown, "none", 80000000) }

AllFormats == VideoFormats \cup AudioFormats

RECURSIVE SeqsUpTo(_, _)
SeqsUpTo(S, n) ==
    IF n = 0 THEN {<<>>}
    ELSE LET shorter == SeqsUpTo(S, n - 1)
         IN  shorter \cup {Append(s, x) : s \in {t \in shorter : Len(t) = n - 1}, x \in S}

---------------------------------------------------------------------------
(* Strings *)

Digits == <<"0", "1", "2", "3", "4", "5", "6", "7", "8", "9">>

RECURSIVE IntToStr(_)
IntToStr(n) ==
    IF n < 10 THEN <<Digits[n + 1]>>
    ELSE IntToStr(n \div 10) \o <<Digits[(n % 10) + 1]>>

DigitValue(c) == (CHOOSE i \in 1..10 : Digits[i] = c) - 1

\* whether int(s) accepts s: a non-empty run of decimal digits
IsIntLiteral(s) ==
    /\ s # <<>>
    /\ \A i \in 1..Len(s) : \E d \in 1..10 : Digits[d] = s[i]

RECURSIVE IntOfStr(_)
IntOfStr(s) ==
    IF Len(s) = 1 THEN DigitValue(s[1])
    ELSE 10 * IntOfStr(SubSeq(s, 1, Len(s) - 1)) + DigitValue(s[Len(s)])

\* s.split(sep): the runs between the occurrences of sep, at least one
RECURSIVE Split(_, _)
Split(s, sep) ==
    IF \A i \in 1..Len(s) : s[i] # sep THEN <<s>>
    ELSE LET i == CHOOSE k \in 1..Len(s) :
                      s[k] = sep /\ \A j \in 1..(k - 1) : s[j] # sep
         IN  <<SubSeq(s, 1, i - 1)>> \o Split(SubSeq(s, i + 1, Len(s)), sep)

\* sep.join(parts)
RECURSIVE Join(_, _)
Join(parts, sep) ==
    IF parts = <<>> THEN <<>>
    ELSE IF Len(parts) = 1 THEN parts[1]
    ELSE parts[1] \o <<sep>> \o Join(Tail(parts), sep)

\* str(res) inside an f-string: an int prints in decimal, the default prints as itself
StrOfRes(res) == IF res = Unknown THEN <<"unknown">> ELSE IntToStr(res)

---------------------------------------------------------------------------
(* YouTubeDownloader.get_available_formats *)

\* current_size / existing_size: f.get('filesize', 0) or 0
SizeOrZero(f) == IF f.filesize = NoSize THEN 0 ELSE f.filesize

\* position of key res in the insertion-ordered dict d, 0 when absent
IndexOfRes(d, res) ==
    IF \E i \in 1..Len(d) : d[i].res = res
    THEN CHOOSE i \in 1..Len(d) : d[i].res = res
    ELSE 0

\* the test of line 44 with the comparison turned around
ReplacesExisting_Less(d, i, f) == SizeOrZero(f) < SizeOrZero(d[i].fmt)

\* the test of line 44, for a key that is present at index i
ReplacesExisting(d, i, f) == SizeOrZero(f) > SizeOrZero(d[i].fmt)

\* the loop body without the test of line 39
VisitFormat_NoFilter(d, f) ==
    LET res == f.height
        i   == IndexOfRes(d, res)
    IN  IF i = 0 THEN Append(d, [res |-> res, fmt |-> f])
        ELSE IF ReplacesExisting(d, i, f) THEN [d EXCEPT ![i].fmt = f]
        ELSE d

\* one iteration of the loop of lines 38-45
VisitFormat(d, f) ==
    IF f.vcodec = "none" THEN d
    ELSE LET res == f.height
             i   == IndexOfRes(d, res)
         IN  IF i = 0 THEN Append(d, [res |-> res, fmt |-> f])
             ELSE IF ReplacesExisting(d, i, f) THEN [d EXCEPT ![i].fmt = f]
             ELSE d

RECURSIVE unique_resolutions(_)
unique_resolutions(formats) ==
    IF formats = <<>> THEN <<>>
    ELSE VisitFormat(unique_resolutions(SubSeq(formats, 1, Len(formats) - 1)),
                     formats[Len(formats)])

\* the sort key of line 50
SortKey(res) == IF res = Unknown THEN 0 ELSE res

\* the order of sorted() without reverse=True
PlacedBefore_Ascending(a, b) == a < b

\* reverse=True: whether an item of key a is placed before an earlier item of key b
PlacedBefore(a, b) == a > b

\* sorted(..., reverse=True) is stable: an item moves ahead of the items
\* before it only while its key is strictly greater
RECURSIVE InsertSorted(_, _)
InsertSorted(s, item) ==
    IF s = <<>> THEN <<item>>
    ELSE IF PlacedBefore(SortKey(item.res), SortKey(s[Len(s)].res))
         THEN Append(InsertSorted(SubSeq(s, 1, Len(s) - 1), item), s[Len(s)])
         ELSE Append(s, item)

RECURSIVE sorted_resolutions(_)
sorted_resolutions(d) ==
    IF d = <<>> THEN <<>>
    ELSE InsertSorted(sorted_resolutions(SubSeq(d, 1, Len(d) - 1)), d[Len(d)])

get_available_formats(formats) == sorted_resolutions(unique_resolutions(formats))

---------------------------------------------------------------------------
(* TelegramBot.handle_message: the quality selection buttons *)

MiB == 1048576

\* the size in tenths of 1,000,000 bytes
RoundedTenths_Decimal(file_size) == file_size \div 100000

\* round(file_size/(1024*1024), 1), in tenths: to the nearest tenth, a tie to even
RoundedTenths(file_size) ==
    LET n == file_size * 10
        q == n \div MiB
        r == n % MiB
    IN  IF 2 * r > MiB THEN q + 1
        ELSE IF 2 * r < MiB THEN q
        ELSE IF q % 2 = 0 THEN q ELSE q + 1

\* size_str of line 165
size_str(file_size) ==
    IF file_size = NoSize THEN <<>>
    ELSE LET t == RoundedTenths(file_size)
         IN  <<" ", "(">> \o IntToStr(t \div 10) \o <<".">> \o IntToStr(t % 10)
             \o <<"M", "B", ")">>

\* callback_data=f"dl_{res}_{url}"
VideoToken(res, u) == <<"dl", "_">> \o StrOfRes(res) \o <<"_">> \o u

\* callback_data=f"dl_audio_{url}"
AudioToken(u) == <<"dl", "_", "audio", "_">> \o u

VideoButton(item, u) ==
    [text          |-> StrOfRes(item.res) \o <<"p">> \o size_str(item.fmt.filesize),
     callback_data |-> VideoToken(item.res, u)]

AudioButton(u) ==
    [text |-> <<"Audio Only (MP3)">>, callback_data |-> AudioToken(u)]

\* list(formats.items())[:3]
MenuCap == 3

\* the items without the [:3] slice
TopResolutions_All(formats) == formats

TopResolutions(formats) ==
    SubSeq(formats, 1, IF Len(formats) < MenuCap THEN Len(formats) ELSE MenuCap)

\* buttons of lines 162-179
QualityButtons(formats, u) ==
    LET top == TopResolutions(formats)
    IN  [i \in 1..Len(top) |-> VideoButton(top[i], u)] \o <<AudioButton(u)>>

---------------------------------------------------------------------------
(* TelegramBot.button_callback: decoding the selection token *)

\* data.startswith('dl_')
IsDownloadToken(d) == Len(d) >= 2 /\ d[1] = "dl" /\ d[2] = "_"

\* parts = data.split('_')
TokenParts(d) == Split(d, "_")

\* quality = parts[1]
TokenQuality(parts) == parts[2]

\* url = parts[2]
TokenUrl_ThirdPart(parts) == parts[3]

\* url = '_'.join(parts[2:])
TokenUrl(parts) == Join(SubSeq(parts, 3, Len(parts)), "_")

\* lines 209-214: what the handler starts; int(quality) raises ValueError
StartedDownload(q, u) ==
    IF q = <<"audio">> THEN [kind |-> "audio", url |-> u, resolution |-> Unknown]
    ELSE IF IsIntLiteral(q)
         THEN [kind |-> "video", url |-> u, resolution |-> IntOfStr(q)]
         ELSE [kind |-> "ValueError", url |-> u, resolution |-> Unknown]

---------------------------------------------------------------------------
(* Paths and texts of the bot *)

\* p.rfind(c), counted from 1, 0 when c is absent
LastIndexOf(p, c) ==
    IF \E i \in 1..Len(p) : p[i] = c
    THEN CHOOSE i \in 1..Len(p) : p[i] = c /\ \A j \in (i + 1)..Len(p) : p[j] # c
    ELSE 0

FirstDotAfterSep(p) ==
    LET sep == LastIndexOf(p, "/")
    IN  IF \E i \in (sep + 1)..Len(p) : p[i] = "."
        THEN CHOOSE i \in (sep + 1)..Len(p) :
                 p[i] = "." /\ \A j \in (sep + 1)..(i - 1) : p[j] # "."
        ELSE 0

\* p up to the first dot of its last component
SplitExtRoot_FirstDot(p) ==
    IF FirstDotAfterSep(p) = 0 THEN p ELSE SubSeq(p, 1, FirstDotAfterSep(p) - 1)

\* os.path.splitext(p)[0]: p up to its last dot, when that dot lies in the last
\* path component and a character other than a dot precedes it there
SplitExtRoot(p) ==
    LET sep == LastIndexOf(p, "/")
        dot == LastIndexOf(p, ".")
    IN  IF dot > sep /\ \E i \in (sep + 1)..(dot - 1) : p[i] # "."
        THEN SubSeq(p, 1, dot - 1)
        ELSE p

\* filename.endswith('.mp4')
EndsWithMp4(p) == Len(p) >= 2 /\ p[Len(p) - 1] = "." /\ p[Len(p)] = "mp4"

\* the reported name kept as it is
WithMp4_Unchanged(p) == p

\* f"{os.path.splitext(filename)[0]}.mp4"
WithMp4(p) == SplitExtRoot(p) \o <<".", "mp4">>

\* f"{os.path.splitext(filename)[0]}.mp3"
WithMp3(p) == SplitExtRoot(p) \o <<".", "mp3">>

\* 'outtmpl': os.path.join("temp_downloads", '%(title)s.%(ext)s')
OutTmpl(t, ext) == <<"temp_downloads", "/">> \o t \o <<".", ext>>

\* text.strip(): without its leading and trailing blanks
RECURSIVE Strip(_)
Strip(s) ==
    IF s = <<>> THEN s
    ELSE IF s[1] = " " THEN Strip(Tail(s))
    ELSE IF s[Len(s)] = " " THEN Strip(SubSeq(s, 1, Len(s) - 1))
    ELSE s

\* no host check
HasHostMarker_Always(u) == TRUE

\* "youtube.com" in url or "youtu.be" in url
HasHostMarker(u) == \E i \in 1..Len(u) : u[i] = "youtube.com" \/ u[i] = "youtu.be"

\* the cross mark that opens the text of a failure message
FailureMark == "(x)"

InvalidInputText == <<"Please send a valid YouTube URL.">>

GettingInfoText == <<"(search)", " Getting video information...">>

ExtractionFailedText ==
    <<FailureMark, " Could not get video information. Please check the URL.">>

NoFormatsText == <<FailureMark, " No downloadable formats found.">>

InfoText == <<"(film)", " title, channel, duration, upload date, views">>

ErrorText(e) == <<FailureMark, " Error: ", e>>

StartingText == <<"(hourglass)", " Starting download... Please wait.">>

DownloadFailedText == <<FailureMark, " Download failed. Please try again.">>

SendErrorText(e) == <<FailureMark, " Error sending file: ", e>>

DownloadingText == <<"(down)", " Downloading...">>

ProgressText(percent) == <<"(down)", " Downloading...", "Progress: ", percent>>

\* the value a fetch returns when it caught an exception, and of a missing info
None == <<>>

\* the path, whether or not an exception was raised
FetchResult_Uncaught(failed, path) == path

\* what download_video and download_audio return: lines 291/338, or 295/342
FetchResult(failed, path) == IF failed THEN None ELSE path

---------------------------------------------------------------------------
(* Each run leaves the variables of the other runs at rest *)

\* get_video_info returned None (line 30)
NoInfo == [found |-> FALSE, complete |-> FALSE, formats |-> <<>>]

ResolverIdle ==
    /\ rformats = <<>>
    /\ rsorted = <<>>
    /\ rmenu = <<>>
    /\ rpc = "idle"

NotStarted == [kind |-> "none", url |-> <<>>, resolution |-> Unknown]

TokenIdle ==
    /\ tres = Unknown
    /\ turl = <<>>
    /\ tdata = <<>>
    /\ tquality = <<>>
    /\ tdecoded = <<>>
    /\ tstart = NotStarted
    /\ tpc = "idle"

BotIdle ==
    /\ pc = "idle"
    /\ handler = "none"
    /\ text = <<>>
    /\ url = <<>>
    /\ info = NoInfo
    /\ menu = <<>>
    /\ data = <<>>
    /\ quality = <<>>
    /\ filename = None
    /\ title = <<>>
    /\ reported = <<>>
    /\ files = {}
    /\ log = <<>>
    /\ exc = ""
    /\ escaped = FALSE
    /\ raised = FALSE
    /\ tasks = <<>>
    /\ status = <<>>
    /\ querytext = <<>>
    /\ inbox = 0
    /\ hooks = 0
    /\ applied = <<>>

---------------------------------------------------------------------------
(* The resolver run: get_available_formats and the menu built from its result *)

ResolverUrl == <<"https://", "youtu.be", "/", "x">>

InitFormats ==
    /\ rformats \in SeqsUpTo(AllFormats, MaxFormats)
    /\ rsorted = <<>>
    /\ rmenu = <<>>
    /\ rpc = "extracted"
    /\ TokenIdle
    /\ BotIdle

\* line 156
Reduce ==
    /\ rpc = "extracted"
    /\ rsorted' = get_available_formats(rformats)
    /\ rpc' = "reduced"
    /\ UNCHANGED <<rformats, rmenu, tvars, bvars>>

\* lines 157-159: an empty dict ends the handler without a menu
NoMenu ==
    /\ rpc = "reduced"
    /\ rsorted = <<>>
    /\ rpc' = "noformats"
    /\ UNCHANGED <<rformats, rsorted, rmenu, tvars, bvars>>

\* lines 161-181
BuildMenu ==
    /\ rpc = "reduced"
    /\ rsorted # <<>>
    /\ rmenu' = QualityButtons(rsorted, ResolverUrl)
    /\ rpc' = "menu"
    /\ UNCHANGED <<rformats, rsorted, tvars, bvars>>

NextFormats == Reduce \/ NoMenu \/ BuildMenu

SpecFormats == InitFormats /\ [][NextFormats]_vars

---------------------------------------------------------------------------
(* Properties of the resolver run *)

IsVideo(f) == f.vcodec # "none"

VideoCandidates(h) == {i \in 1..Len(rformats) : IsVideo(rformats[i]) /\ rformats[i].height = h}

VideoHeights == {rformats[i].height : i \in {j \in 1..Len(rformats) : IsVideo(rformats[j])}}

\* the first video candidate of height h whose size is the maximum of that height
FirstLargest(h) ==
    CHOOSE i \in VideoCandidates(h) :
        /\ \A j \in VideoCandidates(h) : SizeOrZero(rformats[j]) <= SizeOrZero(rformats[i])
        /\ \A j \in VideoCandidates(h) :
              SizeOrZero(rformats[j]) = SizeOrZero(rformats[i]) => i <= j

\* C4: the result of get_available_formats has at most one entry per distinct
\* height, every height with a video candidate has its entry, and the entry kept
\* for a height is the first video candidate of the maximum file size of that
\* height (a missing file size counting as 0).
C4_OnePerHeightLargest ==
    rpc # "extracted" =>
        /\ \A i, j \in 1..Len(rsorted) : rsorted[i].res = rsorted[j].res => i = j
        /\ {rsorted[i].res : i \in 1..Len(rsorted)} = VideoHeights
        /\ \A i \in 1..Len(rsorted) :
              rsorted[i].fmt = rformats[FirstLargest(rsorted[i].res)]

\* a list where a later format of a height is larger than an earlier one, a tie
\* follows, and a format without a size is present: the largest replaced the first
C4_Witness ==
    /\ rpc = "reduced"
    /\ Len(rformats) = 4
    /\ rformats[1].format_id = "616"
    /\ rformats[2].format_id = "248"
    /\ rformats[3].format_id = "399"
    /\ rformats[4].format_id = "137"
    /\ Len(rsorted) = 1
    /\ rsorted[1].fmt.format_id = "399"

\* C5: the result of get_available_formats is ordered by height descending, an
\* unknown height counting as 0, and the video entries of the menu are the 3
\* greatest distinct heights (all of them when fewer), in descending order.
C5_SortedDescending ==
    /\ rpc # "extracted" =>
          \A i, j \in 1..Len(rsorted) :
              i < j => SortKey(rsorted[i].res) > SortKey(rsorted[j].res)
    /\ rpc = "menu" =>
          /\ Len(rmenu) - 1 = (IF Cardinality(VideoHeights) < 3
                               THEN Cardinality(VideoHeights) ELSE 3)
          /\ \A i \in 1..(Len(rmenu) - 1) :
                \E h \in VideoHeights :
                    /\ rmenu[i].callback_data = VideoToken(h, ResolverUrl)
                    /\ Cardinality({g \in VideoHeights : SortKey(g) > SortKey(h)}) = i - 1

\* four distinct heights, the unknown one listed first and the greatest last
C5_Witness ==
    /\ rpc = "menu"
    /\ Len(rformats) = 4
    /\ rformats[1].height = Unknown
    /\ rformats[2].height = 360
    /\ rformats[3].height = 720
    /\ rformats[4].height = 1080
    /\ \A i \in 1..4 : IsVideo(rformats[i])
    /\ Len(rmenu) = 4
    /\ rmenu[1].callback_data = VideoToken(1080, ResolverUrl)
    /\ rmenu[3].callback_data = VideoToken(360, ResolverUrl)

\* C6: a menu holds at most 3 video entries and exactly one audio-only entry,
\* which is the last one, whatever the length of the encoding list.
C6_MenuAtMostFour ==
    rpc = "menu" =>
        /\ Len(rmenu) >= 2
        /\ Len(rmenu) <= 4
        /\ rmenu[Len(rmenu)] = AudioButton(ResolverUrl)
        /\ \A i \in 1..(Len(rmenu) - 1) :
              /\ rmenu[i].callback_data # AudioToken(ResolverUrl)
              /\ \E h \in VideoHeights : rmenu[i].callback_data = VideoToken(h, ResolverUrl)

\* more distinct heights than the cap, and no audio format in the list
C6_Witness ==
    /\ rpc = "menu"
    /\ Cardinality(VideoHeights) = 4
    /\ \A i \in 1..Len(rformats) : IsVideo(rformats[i])
    /\ Len(rmenu) = 4
    /\ rmenu[4] = AudioButton(ResolverUrl)

\* the candidates of the end-to-end scenario, all with a video codec
C9_Scenario ==
    /\ Len(rformats) = 3
    /\ \A i \in 1..3 : IsVideo(rformats[i])
    /\ rformats[1].height = 1080 /\ rformats[1].filesize = 50000000
    /\ rformats[2].height = 1080 /\ rformats[2].filesize = 80000000
    /\ rformats[3].height = 720 /\ rformats[3].filesize = 30000000

\* C9 as stated: for the scenario the menu shows one 1080p entry sized 80MB, then
\* one 720p entry sized 30MB, then the audio entry.
C9_MenuShows80And30 ==
    (rpc = "menu" /\ C9_Scenario) =>
        /\ Len(rmenu) = 3
        /\ rmenu[1].text \in { <<"1", "0", "8", "0", "p", " ", "(", "8", "0", "M", "B", ")">>,
                               <<"1", "0", "8", "0", "p", " ", "(", "8", "0", ".", "0", "M", "B", ")">> }
        /\ rmenu[2].text \in { <<"7", "2", "0", "p", " ", "(", "3", "0", "M", "B", ")">>,
                               <<"7", "2", "0", "p", " ", "(", "3", "0", ".", "0", "M", "B", ")">> }
        /\ rmenu[3] = AudioButton(ResolverUrl)

\* C9, amended: for the scenario the menu shows one 1080p entry, built from the
\* 80,000,000-byte candidate and labelled with its size divided by 1024*1024
\* (76.3MB), then one 720p entry labelled 28.6MB, then the audio entry.
C9_MenuShowsLargestInMiB ==
    (rpc = "menu" /\ C9_Scenario) =>
        /\ Len(rmenu) = 3
        /\ rsorted[1].fmt = rformats[2]
        /\ rmenu[1].text = <<"1", "0", "8", "0", "p", " ", "(", "7", "6", ".", "3", "M", "B", ")">>
        /\ rmenu[1].callback_data = VideoToken(1080, ResolverUrl)
        /\ rmenu[2].text = <<"7", "2", "0", "p", " ", "(", "2", "8", ".", "6", "M", "B", ")">>
        /\ rmenu[2].callback_data = VideoToken(720, ResolverUrl)
        /\ rmenu[3] = AudioButton(ResolverUrl)

C9_Witness == rpc = "menu" /\ C9_Scenario /\ Len(rmenu) = 3

---------------------------------------------------------------------------
(* The token run: a button of a menu is pressed and its payload decoded *)

UrlChars == {"youtu.be", "_", "/", "x"}

TokenHeights == {Unknown, 0, 7, 360, 1080}

InitToken ==
    /\ tres \in TokenHeights
    /\ turl \in SeqsUpTo(UrlChars, MaxUrlLen)
    /\ tdata = <<>>
    /\ tquality = <<>>
    /\ tdecoded = <<>>
    /\ tstart = NotStarted
    /\ tpc = "menu"
    /\ ResolverIdle
    /\ BotIdle

\* the user presses the video entry of height tres (lines 166-170)
PressVideo ==
    /\ tpc = "menu"
    /\ tdata' = VideoToken(tres, turl)
    /\ tpc' = "pressed"
    /\ UNCHANGED <<tres, turl, tquality, tdecoded, tstart, rvars, bvars>>

\* the user presses the audio entry (lines 174-178)
PressAudio ==
    /\ tpc = "menu"
    /\ tdata' = AudioToken(turl)
    /\ tpc' = "pressed_audio"
    /\ UNCHANGED <<tres, turl, tquality, tdecoded, tstart, rvars, bvars>>

\* lines 201-214
Decode ==
    /\ tpc \in {"pressed", "pressed_audio"}
    /\ IsDownloadToken(tdata)
    /\ LET parts == TokenParts(tdata)
       IN  /\ tquality' = TokenQuality(parts)
           /\ tdecoded' = TokenUrl(parts)
           /\ tstart' = StartedDownload(TokenQuality(parts), TokenUrl(parts))
    /\ tpc' = IF tpc = "pressed" THEN "decoded" ELSE "decoded_audio"
    /\ UNCHANGED <<tres, turl, tdata, rvars, bvars>>

NextToken == PressVideo \/ PressAudio \/ Decode

SpecToken == InitToken /\ [][NextToken]_vars

\* C7: decoding the payload dl_<q>_<u> of an integer height q and a URL u
\* recovers the quality q (as the text of q, and as the integer the download is
\* started with) and the URL u, also when u contains underscores.
C7_TokenRoundTrip ==
    (tpc = "decoded" /\ tres # Unknown) =>
        /\ tquality = IntToStr(tres)
        /\ tdecoded = turl
        /\ tstart = [kind |-> "video", url |-> turl, resolution |-> tres]

\* a URL with two underscores, one of them leading, and a four-digit height
C7_Witness ==
    /\ tpc = "decoded"
    /\ tres = 1080
    /\ turl = <<"_", "youtu.be", "_">>
    /\ tdecoded = turl

---------------------------------------------------------------------------
(* The bot: inbound events, the two handlers, the transport and the disk *)

\* inbound texts: no host marker; a marker between blanks; a marker and an underscore
Texts ==
    { <<"hello">>,
      <<" ", "youtu.be", "/", "x", " ">>,
      <<"youtube.com", "/", "a", "_", "b">> }

\* what the collaborator returns for a URL: nothing; metadata lacking 'duration';
\* metadata with no format, with audio only, with one height several times, with
\* an unknown height only, with four heights
Infos ==
    { NoInfo,
      [found |-> TRUE, complete |-> FALSE, formats |-> <<>>],
      [found |-> TRUE, complete |-> TRUE, formats |-> <<>>],
      [found |-> TRUE, complete |-> TRUE,
       formats |-> <<Fmt("140", Unknown, "none", 80000000)>>],
      [found |-> TRUE, complete |-> TRUE,
       formats |-> <<Fmt("248", 1080, "vp9", 50000000), Fmt("137", 1080, "avc1", 80000000),
                     Fmt("136", 720, "avc1", 30000000)>>],
      [found |-> TRUE, complete |-> TRUE,
       formats |-> <<Fmt("sb0", Unknown, "avc1", NoSize)>>],
      [found |-> TRUE, complete |-> TRUE,
       formats |-> <<Fmt("18", Unknown, "avc1", 30000000), Fmt("134", 360, "avc1", 30000000),
                     Fmt("136", 720, "avc1", 30000000), Fmt("137", 1080, "avc1", 80000000)>>] }

\* titles and extensions the collaborator reports for a download
Titles == { <<"Song">>, <<"a", ".", "b">> }

VideoExts == {"mp4", "webm"}

AudioExts == {"webm", "m4a", "mp3"}

\* str(e) of an exception the transport raised
TransportError == "TelegramError"

Call(op, arg, extra, ok) == [op |-> op, arg |-> arg, extra |-> extra, ok |-> ok]

\* progress_hook (lines 258-270, 306-318): the edits one callback schedules
progress_hook(d) ==
    IF d.status = "downloading" THEN <<ProgressText(d.percent)>> ELSE <<>>

\* the callbacks of one download: n in progress, then 'finished' unless it failed
HookCalls(n, failed) ==
    [i \in 1..n |-> [status |-> "downloading", percent |-> Digits[i + 1]]]
    \o (IF failed THEN <<>> ELSE <<[status |-> "finished", percent |-> "100"]>>)

RECURSIVE ScheduledEdits(_)
ScheduledEdits(calls) ==
    IF calls = <<>> THEN <<>>
    ELSE progress_hook(calls[1]) \o ScheduledEdits(Tail(calls))

\* 'format': f'b[height<={resolution}]'
VideoSelector(resolution) == <<"b[height<=">> \o IntToStr(resolution) \o <<"]">>

\* 'format': 'bestaudio/best'
AudioSelector == <<"bestaudio/best">>

Init ==
    /\ BotIdle
    /\ ResolverIdle
    /\ TokenIdle

\* the locals of a handler that starts
FreshHandler ==
    /\ url' = <<>>
    /\ info' = NoInfo
    /\ quality' = <<>>
    /\ filename' = None
    /\ title' = <<>>
    /\ reported' = <<>>
    /\ log' = <<>>
    /\ exc' = ""
    /\ escaped' = FALSE
    /\ raised' = FALSE
    /\ status' = <<>>
    /\ hooks' = 0
    /\ applied' = <<>>

\* Telegram holds an update for the bot: a message or a button press of some
\* conversation, at any time, also while a handler runs (run_polling, line 347)
update_arrives ==
    /\ inbox < MaxInbox
    /\ inbox' = inbox + 1
    /\ UNCHANGED <<pc, handler, text, url, info, menu, data, quality, filename, title,
                   reported, files, log, exc, escaped, raised, tasks, status, querytext,
                   hooks, applied, rvars, tvars>>

\* the Application hands a text message to handle_message (line 93); the edits
\* scheduled during the previous event were started before the loop takes it
receive_message ==
    /\ pc = "idle"
    /\ tasks = <<>>
    /\ inbox > 0
    /\ inbox' = inbox - 1
    /\ \E t \in Texts : text' = t
    /\ handler' = "handle_message"
    /\ pc' = "hm_validate"
    /\ data' = <<>>
    /\ querytext' = <<>>
    /\ FreshHandler
    /\ UNCHANGED <<menu, files, tasks, rvars, tvars>>

\* the user presses a button of the menu: button_callback (line 94)
receive_press ==
    /\ pc = "idle"
    /\ tasks = <<>>
    /\ inbox > 0
    /\ inbox' = inbox - 1
    /\ \E i \in 1..Len(menu) : data' = menu[i].callback_data
    /\ handler' = "button_callback"
    /\ pc' = "bc_answer"
    /\ text' = <<>>
    /\ querytext' = InfoText
    /\ FreshHandler
    /\ UNCHANGED <<menu, files, tasks, rvars, tvars>>

\* handle_message, lines 128-137
handle_message_validate ==
    /\ pc = "hm_validate"
    /\ url' = Strip(text)
    /\ \E ok \in BOOLEAN :
          IF ~HasHostMarker(Strip(text))
          THEN /\ log' = Append(log, Call("reply_text", InvalidInputText, <<>>, ok))
               /\ escaped' = ~ok
               /\ pc' = "idle"
               /\ exc' = exc
          ELSE /\ log' = Append(log, Call("reply_text", GettingInfoText, <<>>, ok))
               /\ escaped' = escaped
               /\ pc' = IF ok THEN "hm_info" ELSE "hm_except"
               /\ exc' = IF ok THEN exc ELSE TransportError
    /\ UNCHANGED <<handler, text, info, menu, data, quality, filename, title, reported,
                   files, raised, tasks, status, querytext, rvars, tvars, lvars>>

\* handle_message, lines 140-188
handle_message_resolve ==
    /\ pc = "hm_info"
    /\ \E i \in Infos, ok \in BOOLEAN :
          LET formats == get_available_formats(i.formats)
              called  == Call("get_video_info", url, <<>>, i.found)
              reply   == IF ~i.found THEN ExtractionFailedText
                         ELSE IF formats = <<>> THEN NoFormatsText
                         ELSE InfoText
              markup  == IF i.found /\ formats # <<>>
                         THEN QualityButtons(formats, url) ELSE <<>>
          IN  /\ info' = i
              /\ IF i.found /\ ~i.complete
                 THEN /\ log' = Append(log, called)
                      /\ exc' = "KeyError"
                      /\ pc' = "hm_except"
                      /\ menu' = menu
                 ELSE /\ log' = log \o <<called, Call("reply_text", reply, markup, ok)>>
                      /\ exc' = IF ok THEN exc ELSE TransportError
                      /\ pc' = IF ok THEN "idle" ELSE "hm_except"
                      /\ menu' = IF ok /\ markup # <<>> THEN markup ELSE menu
    /\ UNCHANGED <<handler, text, url, data, quality, filename, title, reported, files,
                   escaped, raised, tasks, status, querytext, rvars, tvars, lvars>>

\* handle_message, lines 190-191
handle_message_except ==
    /\ pc = "hm_except"
    /\ \E ok \in BOOLEAN :
          /\ log' = Append(log, Call("reply_text", ErrorText(exc), <<>>, ok))
          /\ escaped' = ~ok
    /\ pc' = "idle"
    /\ UNCHANGED <<handler, text, url, info, menu, data, quality, filename, title,
                   reported, files, exc, raised, tasks, status, querytext, rvars, tvars, lvars>>

\* button_callback, line 196
button_callback_answer ==
    /\ pc = "bc_answer"
    /\ \E ok \in BOOLEAN :
          /\ log' = Append(log, Call("answer", <<>>, <<>>, ok))
          /\ escaped' = ~ok
          /\ pc' = IF ok /\ IsDownloadToken(data) THEN "bc_start" ELSE "idle"
    /\ UNCHANGED <<handler, text, url, info, menu, data, quality, filename, title,
                   reported, files, exc, raised, tasks, status, querytext, rvars, tvars, lvars>>

\* button_callback, lines 203-214, up to the first await of the fetch; the edit
\* carries no reply_markup, so the message loses its buttons when it succeeds
button_callback_start ==
    /\ pc = "bc_start"
    /\ LET parts == TokenParts(data)
           start == StartedDownload(TokenQuality(parts), TokenUrl(parts))
       IN  /\ quality' = TokenQuality(parts)
           /\ url' = TokenUrl(parts)
           /\ \E ok \in BOOLEAN :
                 /\ log' = Append(log, Call("edit_message_text", StartingText, <<>>, ok))
                 /\ querytext' = IF ok THEN StartingText ELSE querytext
                 /\ menu' = IF ok THEN <<>> ELSE menu
                 /\ pc' = IF ~ok THEN "bc_except"
                          ELSE IF start.kind = "audio" THEN "da_message"
                          ELSE IF start.kind = "video" THEN "dv_message"
                          ELSE "bc_except"
                 /\ exc' = IF ~ok THEN TransportError
                           ELSE IF start.kind = "ValueError" THEN "ValueError"
                           ELSE exc
    /\ UNCHANGED <<handler, text, info, data, filename, title, reported, files, escaped,
                   raised, tasks, status, rvars, tvars, lvars>>

\* download_video lines 252-255 and download_audio lines 300-303
send_status_message(at, next) ==
    /\ pc = at
    /\ \E ok \in BOOLEAN :
          /\ log' = Append(log, Call("send_message", DownloadingText, <<>>, ok))
          /\ status' = IF ok THEN DownloadingText ELSE status
          /\ filename' = FetchResult(~ok, filename)
          /\ pc' = IF ok THEN next ELSE "bc_fetched"
    /\ UNCHANGED <<handler, text, url, info, menu, data, quality, title, reported, files,
                   exc, escaped, raised, tasks, querytext, rvars, tvars, lvars>>

\* with the status message sent, the handler builds the options and calls
\* ydl.extract_info (lines 272-282, 320-335): a plain call, which the event loop
\* thread runs to its end before it runs anything else
download_video_message == send_status_message("dv_message", "dv_running")

download_audio_message == send_status_message("da_message", "da_running")

\* the positions at which the event loop thread is inside ydl.extract_info
InsideCollaborator == {"dv_running", "da_running", "stalled"}

\* the collaborator calls progress_hook with an in-progress status
collaborator_progress ==
    /\ pc \in {"dv_running", "da_running"}
    /\ hooks < MaxProgress
    /\ hooks' = hooks + 1
    /\ tasks' = tasks \o progress_hook([status |-> "downloading", percent |-> Digits[hooks + 2]])
    /\ UNCHANGED <<pc, handler, text, url, info, menu, data, quality, filename, title,
                   reported, files, log, exc, escaped, raised, status, querytext, inbox,
                   applied, rvars, tvars>>

\* the network stalls: ydl.extract_info neither returns nor raises from here on
\* (no timeout is passed in the options of lines 273-278, 321-331)
collaborator_stall ==
    /\ pc \in {"dv_running", "da_running"}
    /\ pc' = "stalled"
    /\ UNCHANGED <<handler, text, url, info, menu, data, quality, filename, title,
                   reported, files, log, exc, escaped, raised, tasks, status, querytext,
                   lvars, rvars, tvars>>

\* download_video, lines 282-295: ydl.extract_info returns or raises
download_video ==
    /\ pc = "dv_running"
    /\ \E t \in Titles, ext \in VideoExts, failed \in BOOLEAN, renamed \in BOOLEAN :
          LET name   == OutTmpl(t, ext)
              rename == ~failed /\ ~EndsWithMp4(name)
              final  == IF rename THEN WithMp4(name) ELSE name
              called == Call("extract_info", url, VideoSelector(IntOfStr(quality)), ~failed)
          IN  /\ tasks' = tasks \o ScheduledEdits(HookCalls(0, failed))
              /\ raised' = failed
              /\ title' = IF failed THEN title ELSE t
              /\ reported' = IF failed THEN reported ELSE name
              /\ files' = IF failed THEN files
                          ELSE IF rename /\ renamed THEN (files \ {name}) \cup {final}
                          ELSE files \cup {name}
              /\ log' = IF rename
                        THEN log \o <<called, Call("rename", name, final, renamed)>>
                        ELSE Append(log, called)
              /\ filename' = FetchResult(failed \/ (rename /\ ~renamed), final)
    /\ pc' = "bc_fetched"
    /\ UNCHANGED <<handler, text, url, info, menu, data, quality, exc, escaped, status,
                   querytext, rvars, tvars, lvars>>

\* download_audio, lines 335-342: ydl.extract_info returns or raises
download_audio ==
    /\ pc = "da_running"
    /\ \E t \in Titles, ext \in AudioExts, failed \in BOOLEAN :
          LET name == OutTmpl(t, ext)
          IN  /\ tasks' = tasks \o ScheduledEdits(HookCalls(0, failed))
              /\ raised' = failed
              /\ title' = IF failed THEN title ELSE t
              /\ reported' = IF failed THEN reported ELSE name
              /\ files' = IF failed THEN files ELSE files \cup {OutTmpl(t, "mp3")}
              /\ log' = Append(log, Call("extract_info", url, AudioSelector, ~failed))
              /\ filename' = FetchResult(failed, WithMp3(name))
    /\ pc' = "bc_fetched"
    /\ UNCHANGED <<handler, text, url, info, menu, data, quality, exc, escaped, status,
                   querytext, rvars, tvars, lvars>>

\* button_callback, lines 216-238
button_callback_deliver ==
    /\ pc = "bc_fetched"
    /\ \E ok \in BOOLEAN :
          IF filename = None
          THEN /\ log' = Append(log, Call("edit_message_text", DownloadFailedText, <<>>, ok))
               /\ querytext' = IF ok THEN DownloadFailedText ELSE querytext
               /\ pc' = IF ok THEN "idle" ELSE "bc_except"
               /\ exc' = IF ok THEN exc ELSE TransportError
               /\ files' = files
          ELSE IF filename \notin files
          THEN /\ log' = Append(log, Call("open", filename, <<>>, FALSE))
               /\ querytext' = querytext
               /\ pc' = "bc_send_except"
               /\ exc' = "FileNotFoundError"
               /\ files' = files
          ELSE LET send == IF quality = <<"audio">> THEN "send_audio" ELSE "send_video"
               IN  /\ log' = log \o <<Call("open", filename, <<>>, TRUE),
                                      Call(send, filename, <<>>, ok)>>
                                   \o (IF ok THEN <<Call("remove", filename, <<>>, TRUE)>>
                                       ELSE <<>>)
                   /\ querytext' = querytext
                   /\ pc' = IF ok THEN "bc_delete" ELSE "bc_send_except"
                   /\ exc' = IF ok THEN exc ELSE TransportError
                   /\ files' = IF ok THEN files \ {filename} ELSE files
    /\ UNCHANGED <<handler, text, url, info, menu, data, quality, filename, title,
                   reported, escaped, raised, tasks, status, rvars, tvars, lvars>>

\* button_callback, line 239
button_callback_delete ==
    /\ pc = "bc_delete"
    /\ \E ok \in BOOLEAN :
          /\ log' = Append(log, Call("delete_message", <<>>, <<>>, ok))
          /\ querytext' = IF ok THEN <<>> ELSE querytext
          /\ pc' = IF ok THEN "idle" ELSE "bc_send_except"
          /\ exc' = IF ok THEN exc ELSE TransportError
    /\ UNCHANGED <<handler, text, url, info, menu, data, quality, filename, title,
                   reported, files, escaped, raised, tasks, status, rvars, tvars, lvars>>

\* button_callback, lines 241-244
button_callback_send_except ==
    /\ pc = "bc_send_except"
    /\ \E ok \in BOOLEAN :
          /\ log' = Append(log, Call("edit_message_text", SendErrorText(exc), <<>>, ok))
                    \o (IF ok /\ filename \in files
                        THEN <<Call("remove", filename, <<>>, TRUE)>> ELSE <<>>)
          /\ querytext' = IF ok THEN SendErrorText(exc) ELSE querytext
          /\ files' = IF ok THEN files \ {filename} ELSE files
          /\ pc' = IF ok THEN "idle" ELSE "bc_except"
          /\ exc' = IF ok THEN exc ELSE TransportError
    /\ UNCHANGED <<handler, text, url, info, menu, data, quality, filename, title,
                   reported, escaped, raised, tasks, status, rvars, tvars, lvars>>

\* button_callback, lines 246-247
button_callback_except ==
    /\ pc = "bc_except"
    /\ \E ok \in BOOLEAN :
          /\ log' = Append(log, Call("edit_message_text", ErrorText(exc), <<>>, ok))
          /\ querytext' = IF ok THEN ErrorText(exc) ELSE querytext
          /\ escaped' = ~ok
    /\ pc' = "idle"
    /\ UNCHANGED <<handler, text, url, info, menu, data, quality, filename, title,
                   reported, files, exc, raised, tasks, status, rvars, tvars, lvars>>

\* the event loop runs an edit that progress_hook scheduled with create_task
\* (lines 263, 311): only once its thread is back from the handler's plain calls
run_progress_edit ==
    /\ tasks # <<>>
    /\ pc \notin InsideCollaborator
    /\ \E ok \in BOOLEAN :
          /\ status' = IF ok THEN Head(tasks) ELSE status
          /\ applied' = Append(applied, [text |-> Head(tasks), ok |-> ok])
    /\ tasks' = Tail(tasks)
    /\ UNCHANGED <<pc, handler, text, url, info, menu, data, quality, filename, title,
                   reported, files, log, exc, escaped, raised, querytext, inbox, hooks,
                   rvars, tvars>>

Next ==
    \/ update_arrives
    \/ receive_message
    \/ receive_press
    \/ handle_message_validate
    \/ handle_message_resolve
    \/ handle_message_except
    \/ button_callback_answer
    \/ button_callback_start
    \/ download_video_message
    \/ download_audio_message
    \/ collaborator_progress
    \/ collaborator_stall
    \/ download_video
    \/ download_audio
    \/ button_callback_deliver
    \/ button_callback_delete
    \/ button_callback_send_except
    \/ button_callback_except
    \/ run_progress_edit

Spec == Init /\ [][Next]_vars

---------------------------------------------------------------------------
(* Properties of the bot *)

HandlerDone == pc = "idle" /\ handler # "none"

NoHostMarker(t) == \A i \in 1..Len(t) : t[i] \notin {"youtube.com", "youtu.be"}

Calls(ops) == {i \in 1..Len(log) : log[i].op \in ops}

ChatCalls == Calls({"reply_text", "edit_message_text"})

LastChatCall == log[CHOOSE i \in ChatCalls : \A j \in ChatCalls : j <= i]

\* the failure the current event ran into, "none" when it did not
Failure ==
    IF handler = "handle_message" /\ NoHostMarker(text) THEN "InvalidInput"
    ELSE IF \E i \in Calls({"get_video_info"}) : ~log[i].ok THEN "ExtractionFailed"
    ELSE IF handler = "handle_message" /\ info.found /\ info.complete
            /\ \A i \in 1..Len(info.formats) : info.formats[i].vcodec = "none"
         THEN "NoFormatsFound"
    ELSE IF \E i \in Calls({"extract_info", "rename"}) : ~log[i].ok THEN "DownloadFailed"
    ELSE IF \E i \in Calls({"open", "send_audio", "send_video"}) : ~log[i].ok
         THEN "DeliveryFailed"
    ELSE "none"

\* C1: once a selection event whose download returned a local file path has
\* finished, that file no longer exists, whether the send succeeded or opening or
\* sending failed, also when a later message edit or delete raised.
C1_FileGoneWhenHandlerDone ==
    (handler = "button_callback" /\ pc = "idle" /\ filename # None) => filename \notin files

\* C2: a failure of handle_message or button_callback (InvalidInput,
\* ExtractionFailed, NoFormatsFound, DownloadFailed, DeliveryFailed) ends with a
\* chat message that opens with the failure mark and carries a cause; nothing is
\* tried twice and no exception leaves the handler.
C2_FailureEndsInMarkedMessage ==
    (HandlerDone /\ Failure # "none") =>
        /\ ~escaped
        /\ ChatCalls # {}
        /\ LastChatCall.ok
        /\ Head(LastChatCall.arg) = FailureMark
        /\ Len(LastChatCall.arg) >= 2
        /\ \A op \in {"get_video_info", "extract_info", "send_audio", "send_video"} :
              Cardinality(Calls({op})) <= 1

\* C3: when the collaborator raises during a video or audio download, the fetch
\* returns no path, neither send_audio nor send_video is called for the event, and
\* the handler reports the download failure: the edit with the download-failed
\* text is its next call, and the message shows that text once the transport
\* accepts the edit.
C3_CollaboratorFailureReported ==
    (handler = "button_callback" /\ raised) =>
        /\ filename = None
        /\ Calls({"send_audio", "send_video", "open"}) = {}
        /\ pc # "bc_fetched" =>
              \E i \in Calls({"edit_message_text"}) :
                  /\ log[i].arg = DownloadFailedText
                  /\ log[i - 1].op = "extract_info" /\ ~log[i - 1].ok
                  /\ log[i].ok => (i = Len(log) /\ pc = "idle" /\ querytext = DownloadFailedText)

C3_Witness ==
    /\ handler = "button_callback"
    /\ raised
    /\ pc = "idle"
    /\ quality = <<"7", "2", "0">>
    /\ querytext = DownloadFailedText

\* C8: for a text with neither host marker, handle_message never calls
\* get_video_info; its only call is the InvalidInput reply, which carries no menu,
\* and the handler ends there.
C8_InvalidInputOnlyReplies ==
    (handler = "handle_message" /\ pc # "hm_validate" /\ NoHostMarker(text)) =>
        /\ pc = "idle"
        /\ Len(log) = 1
        /\ log[1].op = "reply_text"
        /\ log[1].arg = InvalidInputText
        /\ log[1].extra = <<>>
        /\ info = NoInfo

C8_Witness ==
    /\ handler = "handle_message"
    /\ pc = "idle"
    /\ text = <<"hello">>
    /\ Len(log) = 1
    /\ log[1].ok

\* C10: a path returned by download_audio is the directory and title of the
\* filename the collaborator reported, followed by .mp3, whatever the reported
\* extension.
C10_AudioPathIsStemMp3 ==
    (handler = "button_callback" /\ quality = <<"audio">> /\ filename # None) =>
        /\ \E ext \in AudioExts : reported = OutTmpl(title, ext)
        /\ filename = <<"temp_downloads", "/">> \o title \o <<".", "mp3">>

\* a title with a dot in it, reported with an extension other than mp3
C10_Witness ==
    /\ handler = "button_callback"
    /\ quality = <<"audio">>
    /\ title = <<"a", ".", "b">>
    /\ reported = OutTmpl(title, "webm")
    /\ filename # None

\* the event loop can hand a waiting update to its handler
CanHandleUpdate == ENABLED (receive_message \/ receive_press)

\* C11: while the download of one conversation is stalled inside the collaborator
\* call, an update of another conversation that arrived during the stall can
\* still be handled by the event loop.
C11_OtherConversationsHandled ==
    (pc = "stalled" /\ inbox > 0) => CanHandleUpdate

\* the calls of the current event that report a delivery failure to the user
DeliveryReports ==
    {i \in Calls({"edit_message_text"}) :
        /\ \E e \in {TransportError, "FileNotFoundError"} : log[i].arg = SendErrorText(e)
        /\ \E j \in Calls({"open", "send_audio", "send_video"}) : j < i /\ ~log[j].ok}

\* C12: when opening or sending the downloaded file raised, the local file is
\* removed before the failure is reported, so that the report, whether the
\* transport accepts it or not, finds the cleanup already done.
C12_CleanupBeforeReport ==
    \A i \in DeliveryReports :
        \/ \E j \in Calls({"remove"}) : j < i
        \/ \E j \in Calls({"open"}) : j < i /\ ~log[j].ok

\* the texts of the edits the in-progress callbacks made so far ask for, in
\* the order of the callbacks
CallbackTexts == [i \in 1..hooks |-> ProgressText(Digits[i + 1])]

\* the edits of the current download, run already or still scheduled
IssuedEdits == [i \in 1..Len(applied) |-> applied[i].text] \o tasks

\* one edit per in-progress callback, none for 'finished', in callback order
C13_OneEditPerCallbackInOrder == IssuedEdits = CallbackTexts

\* C13: the edits of the status message that the in-progress callbacks ask for
\* are applied while the download is still running.
C13_EditsAppliedWhileRunning ==
    [][applied' # applied => pc \in {"dv_running", "da_running"}]_vars

\* the metadata of the current message has its fields and no format with a
\* video codec
NoVideoCodec ==
    /\ handler = "handle_message"
    /\ info.found
    /\ info.complete
    /\ \A i \in 1..Len(info.formats) : info.formats[i].vcodec = "none"

VideoFetchReturned ==
    /\ handler = "button_callback"
    /\ quality # <<"audio">>
    /\ pc = "bc_fetched"

\* C15: a path that download_video returns ends in .mp4 and names a file on
\* disk; when the collaborator reported another extension the file was renamed,
\* so the reported name is gone and the path is its .mp4 name; after a rename
\* that failed download_video returns no path and the next call of the handler
\* is the download-failed edit.
C15_VideoPathIsMp4OnDisk ==
    /\ (VideoFetchReturned /\ filename # None) =>
          /\ EndsWithMp4(filename)
          /\ filename \in files
          /\ filename = <<"temp_downloads", "/">> \o title \o <<".", "mp4">>
          /\ reported # filename =>
                /\ reported \notin files
                /\ log[Len(log)] = Call("rename", reported, filename, TRUE)
    /\ \A i \in Calls({"rename"}) :
          ~log[i].ok =>
              /\ filename = None
              /\ i < Len(log) =>
                    /\ log[i + 1].op = "edit_message_text"
                    /\ log[i + 1].arg = DownloadFailedText

\* the collaborator reported a .webm file and the rename succeeded
C15_Witness ==
    /\ VideoFetchReturned
    /\ reported = OutTmpl(<<"Song">>, "webm")
    /\ filename = OutTmpl(<<"Song">>, "mp4")
    /\ filename \in files

\* the collaborator reported a .webm file and the rename raised
C15_RenameFailed ==
    /\ VideoFetchReturned
    /\ filename = None
    /\ \E i \in Calls({"rename"}) : ~log[i].ok

\* button_callback has decoded the pressed entry and shown the starting text
EntryDecoded ==
    /\ handler = "button_callback"
    /\ log # <<>>
    /\ log[Len(log)] = Call("edit_message_text", StartingText, <<>>, TRUE)

\* C16: once the starting text of a pressed menu entry is shown, the handler is
\* about to start the download the entry stands for: the audio download for the
\* audio entry, and for a video entry, its height unknown or not, a video
\* download; it has not run into a decoding error.
C16_EveryEntrySelectable ==
    EntryDecoded =>
        /\ exc # "ValueError"
        /\ pc = (IF data = AudioToken(url) THEN "da_message" ELSE "dv_message")

====
